---- MODULE Spec2Model ----
(***************************************************************************)
(* Model of src/src/index.ts: the Discord MCP server.  The state is the    *)
(* Discord client's guild cache (changed by gateway events at any await    *)
(* point) and one tool invocation of the CallToolRequestSchema handler,    *)
(* stepped from await to await.  Strings are sequences of one-character    *)
(* strings so that toLowerCase and replace("#", "") are computed.          *)
(***************************************************************************)
EXTENDS Integers, Sequences, FiniteSets, TLC

\* ------------------------------------------------------------------ bounds
MaxGuilds == 2
MaxMsgs == 3
MaxTime == 2

\* ------------------------------------------------------- program constants
LimitMin == 1
LimitMax == 100
LimitDefault == 50
ContextMin == 1
ContextMax == 50
ContextDefault == 25

\* ------------------------------------------------------------------ strings
Digits == <<"0", "1", "2", "3", "4", "5", "6", "7", "8", "9">>

Digit(n) == Digits[n + 1]

\* String.prototype.toLowerCase on one character of the alphabet in use.
LowerChar(ch) ==
  CASE ch = "A" -> "a"
    [] ch = "B" -> "b"
    [] ch = "G" -> "g"
    [] ch = "X" -> "x"
    [] OTHER -> ch

toLowerCase(s) == [i \in 1..Len(s) |-> LowerChar(s[i])]

\* s.replace("#", ""): removes the FIRST "#" of s, wherever it stands.
RECURSIVE replaceHash(_)
replaceHash(s) ==
  IF s = <<>> THEN <<>>
  ELSE IF Head(s) = "#" THEN Tail(s)
  ELSE <<Head(s)>> \o replaceHash(Tail(s))

\* ---------------------------------------------------------------- platform
\* The servers the bot may be joined to, and their attributes.
Guilds == 1..MaxGuilds

GuildId(g) == <<Digit(g)>>

GuildName(g) ==
  CASE g = 1 -> <<"A">>
    [] g = 2 -> <<"b">>
    [] OTHER -> <<"a">>

\* The channels of the platform: owning guild, display name, and whether the
\* channel is an instance of TextChannel (display names never hold "#").
ChannelTable ==
  << [owner |-> 1, name |-> <<"g">>, text |-> TRUE],
     [owner |-> 1, name |-> <<"g">>, text |-> FALSE],
     [owner |-> 2, name |-> <<"G">>, text |-> TRUE] >>

Channels == 1..Len(ChannelTable)

ChannelId(c) == <<Digit(ChannelTable[c].owner), Digit(c)>>

\* null / undefined
NULL == 0

\* An absent optional string; like "", it is falsy.
Absent == <<>>

BotId == "self"

Authors ==
  { [id |-> BotId, bot |-> TRUE, username |-> "mcp"],
    [id |-> "bot2", bot |-> TRUE, username |-> "hook"],
    [id |-> "jane", bot |-> FALSE, username |-> "Jane"] }

\* Whether sequence s holds x.
InSeq(x, s) == \E i \in 1..Len(s) : s[i] = x

\* Collection.first(): the first element of s, or NULL when s is empty.
first(s) == IF s = <<>> THEN NULL ELSE Head(s)

\* ---------------------------------------------------------------- findGuild
\* client.guilds.fetch(id): the cached guild with that identifier; NULL stands
\* for the promise rejecting (no joined guild has the identifier).
guildsFetch(guildIdentifier, cache) ==
  LET hasId(g) == GuildId(g) = guildIdentifier
  IN first(SelectSeq(cache, hasId))

\* A variant of soleGuild that takes the first guild whenever one is joined.
SoleGuildWrong(cache) == IF Len(cache) >= 1 THEN cache[1] ELSE NULL

\* The guild when guildIdentifier is falsy (lines 26-33).
soleGuild(cache) == IF Len(cache) = 1 THEN cache[1] ELSE NULL

\* The catch branch: case-insensitive search by name, first match wins.
guildByName(guildIdentifier, cache) ==
  LET sameName(g) == toLowerCase(GuildName(g)) = toLowerCase(guildIdentifier)
  IN first(SelectSeq(cache, sameName))

findGuild(guildIdentifier, cache) ==
  IF guildIdentifier = Absent THEN soleGuild(cache)
  ELSE IF guildsFetch(guildIdentifier, cache) # NULL
       THEN guildsFetch(guildIdentifier, cache)
       ELSE guildByName(guildIdentifier, cache)

\* -------------------------------------------------------------- findChannel
\* guild.channels.cache: the channels of the guild, emptied once it is left.
guildChannels(g, cache) ==
  LET owned(c) == ChannelTable[c].owner = g
  IN IF InSeq(g, cache)
     THEN SelectSeq([c \in 1..Len(ChannelTable) |-> c], owned)
     ELSE <<>>

\* client.channels.fetch(id): the channel with that identifier when its guild
\* is joined; NULL stands for the promise rejecting.
channelsFetch(channelIdentifier, cache) ==
  LET hit == {c \in Channels : /\ ChannelId(c) = channelIdentifier
                               /\ InSeq(ChannelTable[c].owner, cache)}
  IN IF hit = {} THEN NULL ELSE CHOOSE c \in hit : TRUE

\* A variant of acceptFetched that does not compare the owning guild.
AcceptAnyGuild(c, g) == ChannelTable[c].text

\* The test applied to a channel fetched by identifier (lines 72-75).
acceptFetched(c, g) ==
  ChannelTable[c].text /\ (g = NULL \/ ChannelTable[c].owner = g)

\* A variant of nameMatches that compares the raw reference only.
NameMatchesRawOnly(name, channelIdentifier) ==
  toLowerCase(name) = toLowerCase(channelIdentifier)

\* The name test of the fallback filter (lines 83-86).
nameMatches(name, channelIdentifier) ==
  \/ toLowerCase(name) = toLowerCase(channelIdentifier)
  \/ toLowerCase(name) = replaceHash(toLowerCase(channelIdentifier))

channelByName(channelIdentifier, g, cache) ==
  LET match(c) == /\ ChannelTable[c].text
                  /\ nameMatches(ChannelTable[c].name, channelIdentifier)
  IN first(SelectSeq(guildChannels(g, cache), match))

\* Lines 69-94: what findChannel does once the guild is resolved.
channelLookup(channelIdentifier, g, cache) ==
  LET ch == channelsFetch(channelIdentifier, cache)
  IN IF ch # NULL
     THEN (IF acceptFetched(ch, g) THEN ch ELSE NULL)
     ELSE channelByName(channelIdentifier, g, cache)

\* findChannel when the guild cache does not change while it runs.
findChannel(channelIdentifier, guildIdentifier, cache) ==
  LET g == findGuild(guildIdentifier, cache)
  IN IF g = NULL THEN NULL ELSE channelLookup(channelIdentifier, g, cache)

\* ------------------------------------------------------ findLastUserMessage
\* The windows a fetch of messages may resolve to: at most MaxMsgs messages,
\* newest first (message 1 is the newest).
AllWindows ==
  LET Raw == UNION {[1..k -> Authors \X (1..MaxTime)] : k \in 0..MaxMsgs}
      newestFirst(f) == \A i \in 1..(Len(f) - 1) : f[i][2] >= f[i + 1][2]
  IN { [i \in 1..Len(f) |-> [id |-> i, author |-> f[i][1], createdTimestamp |-> f[i][2]]] :
         f \in {r \in Raw : newestFirst(r)} }

\* channel.messages.fetch({limit}): at most limit messages.
Windows(limit) == {w \in AllWindows : Len(w) <= limit}

\* The numbers of messages such a fetch may resolve to.
fetchCounts(limit) == 0..(IF limit < MaxMsgs THEN limit ELSE MaxMsgs)

\* Array.prototype.sort with (a, b) => a.createdTimestamp - b.createdTimestamp:
\* a stable ascending sort.
RECURSIVE sortMessages(_)
sortMessages(s) ==
  IF s = <<>> THEN <<>>
  ELSE LET m == s[Len(s)]
           rest == sortMessages(SubSeq(s, 1, Len(s) - 1))
           notAfter(x) == x.createdTimestamp <= m.createdTimestamp
           after(x) == x.createdTimestamp > m.createdTimestamp
       IN SelectSeq(rest, notAfter) \o <<m>> \o SelectSeq(rest, after)

qualifies(msg, botId) == ~msg.author.bot /\ msg.author.id # botId

\* The for loop of lines 118-124, from index i down to 1; <<>> is null.
RECURSIVE scanFrom(_, _, _)
scanFrom(sorted, i, botId) ==
  IF i < 1 THEN <<>>
  ELSE IF qualifies(sorted[i], botId) THEN <<sorted[i]>>
  ELSE scanFrom(sorted, i - 1, botId)

\* A variant of findLastUserMessage that scans the window as fetched, without
\* sorting it.
FindLastUnsorted(messages, botId) ==
  [lastUserMessage |-> scanFrom(messages, Len(messages), botId),
   conversationContext |-> messages]

findLastUserMessage(messages, botId) ==
  LET sortedMessages == sortMessages(messages)
  IN [lastUserMessage |-> scanFrom(sortedMessages, Len(sortedMessages), botId),
      conversationContext |-> sortedMessages]

\* ------------------------------------------------------------------ schemas
ToolNames == {"send-message", "read-messages", "reply-to-conversation"}

\* The path of the numeric parameter of a tool's schema, "" when it has none.
numPath(name) ==
  CASE name = "read-messages" -> "limit"
    [] name = "reply-to-conversation" -> "contextSize"
    [] OTHER -> ""

\* A variant of inRange whose bounds are off by one.
InRangeLoose(name, v) ==
  CASE name = "read-messages" -> v >= LimitMin - 1 /\ v <= LimitMax + 1
    [] name = "reply-to-conversation" -> v >= ContextMin - 1 /\ v <= ContextMax + 1
    [] OTHER -> TRUE

\* z.number().min(lo).max(hi) on a given value v.
inRange(name, v) ==
  CASE name = "read-messages" -> v >= LimitMin /\ v <= LimitMax
    [] name = "reply-to-conversation" -> v >= ContextMin /\ v <= ContextMax
    [] OTHER -> TRUE

\* Schema.parse(args): the paths of the issues of the ZodError, in schema
\* order; <<>> when the arguments parse.  An optional argument is <<>> when
\* undefined and <<v>> when given; keys the schema does not name are dropped.
issues(name, args) ==
  (IF args.channel = <<>> THEN <<"channel">> ELSE <<>>)
  \o (IF numPath(name) # "" /\ args.num # <<>> /\ ~inRange(name, args.num[1])
      THEN <<numPath(name)>> ELSE <<>>)

\* The parsed limit / contextSize, with .default() applied.
size(r) ==
  IF r.num # <<>> THEN r.num[1]
  ELSE IF r.name = "read-messages" THEN LimitDefault
  ELSE ContextDefault

errorPrefix(name) ==
  CASE name = "send-message" -> "Could not send message: "
    [] name = "read-messages" -> "Could not read messages: "
    [] OTHER -> "Could not reply to conversation: "

\* ------------------------------------------------------------------ results
\* What an invocation ends with: kind "text" is a returned { content: [text] },
\* kind "error" an error thrown to the transport.  tag names the template of
\* the text, listed what it enumerates and items the guilds or channels it
\* enumerates; chan, n, msg and paths are the values the template embeds.
Outcome(kind, tag, prefix, listed, items, chan, n, msg, paths) ==
  [kind |-> kind, tag |-> tag, prefix |-> prefix, listed |-> listed,
   items |-> items, chan |-> chan, n |-> n, msg |-> msg, paths |-> paths]

NoResult == Outcome("none", "", "", "none", <<>>, NULL, 0, "", <<>>)

Text(tag, prefix, listed, items, chan, n) ==
  Outcome("text", tag, prefix, listed, items, chan, n, "", <<>>)

Thrown(tag, msg, paths) ==
  Outcome("error", tag, "", "none", <<>>, NULL, 0, msg, paths)

\* The catch block of the handler, for a ZodError with the given issue paths.
zodRethrown(paths) == Thrown("invalid-arguments", "Invalid arguments: ", paths)

\* A variant of rethrown that throws a new error in place of the one caught.
WrappedError(e) == Thrown("platform", "Error", <<>>)

\* The catch block of the handler, for any other error: throw error.
rethrown(e) == Thrown("platform", e, <<>>)

\* Text channels of guild.channels.cache, as the diagnostic lists them.
textChannels(g, cache) ==
  LET isText(c) == ChannelTable[c].text
  IN SelectSeq(guildChannels(g, cache), isText)

\* A variant of notFoundResult that throws.
NotFoundThrows(name, serverIdentifier, cache) ==
  Thrown("not-found", "Channel not found", <<>>)

\* The if (!channel) block: the text returned when findChannel gave null.
notFoundResult(name, serverIdentifier, cache) ==
  IF serverIdentifier = Absent /\ Len(cache) > 1
  THEN Text("multiple-servers", errorPrefix(name), "servers", cache, NULL, 0)
  ELSE IF serverIdentifier # Absent
  THEN (IF findGuild(serverIdentifier, cache) = NULL
        THEN Text("server-not-found", errorPrefix(name), "servers", cache, NULL, 0)
        ELSE Text("channel-not-found-in-server", errorPrefix(name), "channels",
                  textChannels(findGuild(serverIdentifier, cache), cache), NULL, 0))
  ELSE Text("channel-not-found", errorPrefix(name), "none", <<>>, NULL, 0)

\* A platform call made by the invocation; arg is the message replied to.
Call(op, arg) == [op |-> op, arg |-> arg]

\* A variant of replyCall that sends to the channel.
PlainSend(msg) == Call("send", 0)

\* The call that answers the located message: lastUserMessage.reply(message).
replyCall(msg) == Call("reply", msg.id)

\* What a platform call may do: resolve, or reject with an error.
PlatformErrors == {"Missing Access", "ECONNRESET"}

Outcomes == {"ok"} \cup PlatformErrors

\* -------------------------------------------------------------------- state
VARIABLES
  guildCache,       \* client.guilds.cache, in enumeration order
  pc,               \* where the handler's invocation stands
  req,              \* request.params of the invocation
  guild,            \* findChannel's guild
  channel,          \* the handler's channel
  lastUserMessage,  \* <<>> (null) or <<message>>
  fetched,          \* the window given to the scanner (scanner runs only)
  calls,            \* platform and resolver calls made by the invocation
  raised,           \* the error a platform call rejected with, or "none"
  result            \* what the invocation ended with

vars == <<guildCache, pc, req, guild, channel, lastUserMessage, fetched,
          calls, raised, result>>

NoRequest == [name |-> "", server |-> Absent, channel |-> <<>>, num |-> <<>>]

\* The inputs of the tools.
ServerRefs ==
  {Absent, <<"a">>, <<"z">>}
    \cup {GuildId(g) : g \in Guilds} \cup {GuildName(g) : g \in Guilds}

NameRefs == {<<"g">>, <<"G">>, <<"x">>}

ChannelRefs ==
  {ChannelId(c) : c \in Channels} \cup NameRefs \cup {<<"#">> \o n : n \in NameRefs}

LimitArgs ==
  {<<>>} \cup {<<v>> : v \in {LimitMin - 1, LimitMin, LimitMax, LimitMax + 1}}

ContextSizeArgs ==
  {<<>>} \cup {<<v>> : v \in {ContextMin - 1, ContextMin, ContextMax, ContextMax + 1}}

Requests ==
  {[name |-> "unknown-tool", server |-> Absent, channel |-> <<>>, num |-> <<>>]}
    \cup [name : {"send-message"}, server : ServerRefs,
          channel : {<<>>} \cup {<<c>> : c \in ChannelRefs}, num : {<<>>}]
    \cup [name : {"read-messages"}, server : ServerRefs,
          channel : {<<>>} \cup {<<c>> : c \in ChannelRefs}, num : LimitArgs]
    \cup [name : {"reply-to-conversation"}, server : ServerRefs,
          channel : {<<>>} \cup {<<c>> : c \in ChannelRefs}, num : ContextSizeArgs]

Idle ==
  /\ req = NoRequest
  /\ guild = NULL
  /\ channel = NULL
  /\ lastUserMessage = <<>>
  /\ calls = <<>>
  /\ raised = "none"
  /\ result = NoResult

Init ==
  /\ guildCache = <<>>
  /\ pc = "idle"
  /\ fetched = <<>>
  /\ Idle

\* ----------------------------------------------------------- gateway events
\* guildCreate: the bot joins guild g.
GuildCreate(g) ==
  /\ ~InSeq(g, guildCache)
  /\ guildCache' = Append(guildCache, g)
  /\ UNCHANGED <<pc, req, guild, channel, lastUserMessage, fetched, calls,
                 raised, result>>

\* guildDelete: the bot leaves guild g.
GuildDelete(g) ==
  /\ InSeq(g, guildCache)
  /\ guildCache' = SelectSeq(guildCache, LAMBDA x : x # g)
  /\ UNCHANGED <<pc, req, guild, channel, lastUserMessage, fetched, calls,
                 raised, result>>

\* -------------------------------------------------------------- the handler
\* Lines 282-292, 533-545: dispatch on the tool name and parse the arguments.
CallTool(r) ==
  /\ pc = "idle"
  /\ req' = r
  /\ IF r.name \notin ToolNames
     THEN /\ result' = Thrown("unknown-tool", "Unknown tool: ", <<>>)
          /\ pc' = "done"
     ELSE IF issues(r.name, r) # <<>>
     THEN /\ result' = zodRethrown(issues(r.name, r))
          /\ pc' = "done"
     ELSE /\ result' = result
          /\ pc' = "findChannel"
  /\ UNCHANGED <<guildCache, guild, channel, lastUserMessage, fetched, calls,
                 raised>>

\* Lines 62-67: findChannel awaits findGuild.
FindChannelGuild ==
  /\ pc = "findChannel"
  /\ guild' = findGuild(req.server, guildCache)
  /\ calls' = Append(calls, Call("findGuild", 0))
  /\ pc' = IF guild' = NULL THEN "notFound" ELSE "fetchChannel"
  /\ UNCHANGED <<guildCache, req, channel, lastUserMessage, fetched, raised,
                 result>>

\* Lines 69-94: findChannel awaits client.channels.fetch, then filters.
FindChannelFetch ==
  /\ pc = "fetchChannel"
  /\ channel' = channelLookup(req.channel[1], guild, guildCache)
  /\ calls' = Append(calls, Call("channels.fetch", 0))
  /\ pc' = IF channel' = NULL THEN "notFound" ELSE "resolved"
  /\ UNCHANGED <<guildCache, req, guild, lastUserMessage, fetched, raised,
                 result>>

\* Lines 300-343, 369-412, 449-492: the diagnostic of a failed resolution.
NotFound ==
  /\ pc = "notFound"
  /\ result' = notFoundResult(req.name, req.server, guildCache)
  /\ calls' = IF req.server # Absent
              THEN Append(calls, Call("findGuild", 0)) ELSE calls
  /\ pc' = "done"
  /\ UNCHANGED <<guildCache, req, guild, channel, lastUserMessage, fetched,
                 raised>>

\* Lines 345-353: channel.send(message).
Send(o) ==
  /\ pc = "resolved"
  /\ req.name = "send-message"
  /\ calls' = Append(calls, Call("send", 0))
  /\ raised' = IF o = "ok" THEN "none" ELSE o
  /\ result' = IF o = "ok"
               THEN Text("sent", "", "none", <<>>, channel, 0)
               ELSE rethrown(o)
  /\ pc' = "done"
  /\ UNCHANGED <<guildCache, req, guild, channel, lastUserMessage, fetched>>

\* Lines 414-432: channel.messages.fetch({ limit }) and the JSON text, which
\* holds one entry for each of the n messages fetched.
ReadMessages(o, n) ==
  /\ pc = "resolved"
  /\ req.name = "read-messages"
  /\ calls' = Append(calls, Call("messages.fetch", 0))
  /\ raised' = IF o = "ok" THEN "none" ELSE o
  /\ result' = IF o = "ok"
               THEN Text("messages", "", "none", <<>>, channel, n)
               ELSE rethrown(o)
  /\ pc' = "done"
  /\ UNCHANGED <<guildCache, req, guild, channel, lastUserMessage, fetched>>

\* Lines 494-511: findLastUserMessage, and the text when it finds none; w is
\* the window the fetch resolves to when it does not reject.
Scan(o, w) ==
  /\ pc = "resolved"
  /\ req.name = "reply-to-conversation"
  /\ calls' = Append(calls, Call("messages.fetch", 0))
  /\ raised' = IF o = "ok" THEN "none" ELSE o
  /\ lastUserMessage' =
       IF o = "ok" THEN findLastUserMessage(w, BotId).lastUserMessage ELSE <<>>
  /\ IF o # "ok"
     THEN result' = rethrown(o) /\ pc' = "done"
     ELSE IF lastUserMessage' = <<>>
     THEN /\ result' = Text("no-user-messages", "", "none", <<>>, channel, size(req))
          /\ pc' = "done"
     ELSE result' = result /\ pc' = "reply"
  /\ UNCHANGED <<guildCache, req, guild, channel, fetched>>

\* Lines 513-530: lastUserMessage.reply(message).
Reply(o) ==
  /\ pc = "reply"
  /\ calls' = Append(calls, replyCall(lastUserMessage[1]))
  /\ raised' = IF o = "ok" THEN "none" ELSE o
  /\ result' = IF o = "ok"
               THEN Text("replied", "", "none", <<>>, channel, lastUserMessage[1].id)
               ELSE rethrown(o)
  /\ pc' = "done"
  /\ UNCHANGED <<guildCache, req, guild, channel, lastUserMessage, fetched>>

\* The invocation is over; the handler takes the next request.
Return ==
  /\ pc = "done"
  /\ pc' = "idle"
  /\ req' = NoRequest
  /\ guild' = NULL
  /\ channel' = NULL
  /\ lastUserMessage' = <<>>
  /\ calls' = <<>>
  /\ raised' = "none"
  /\ result' = NoResult
  /\ UNCHANGED <<guildCache, fetched>>

Next ==
  \/ \E g \in Guilds : GuildCreate(g)
  \/ \E g \in Guilds : GuildDelete(g)
  \/ \E r \in Requests : CallTool(r)
  \/ FindChannelGuild
  \/ FindChannelFetch
  \/ NotFound
  \/ \E o \in Outcomes : Send(o)
  \/ \E o \in Outcomes : \E n \in fetchCounts(size(req)) : ReadMessages(o, n)
  \/ \E o \in Outcomes :
       \E w \in (IF o = "ok" THEN Windows(size(req)) ELSE {<<>>}) : Scan(o, w)
  \/ \E o \in Outcomes : Reply(o)
  \/ Return

Spec == Init /\ [][Next]_vars

\* ------------------------------------------------- the scanner on its own
\* findLastUserMessage applied to each window a fetch may resolve to.
InitScan ==
  /\ guildCache = <<>>
  /\ pc = "scan"
  /\ fetched \in Windows(MaxMsgs)
  /\ Idle

ScanWindow ==
  /\ pc = "scan"
  /\ lastUserMessage' = findLastUserMessage(fetched, BotId).lastUserMessage
  /\ pc' = "scanned"
  /\ UNCHANGED <<guildCache, req, guild, channel, fetched, calls, raised, result>>

NextScan == ScanWindow

SpecScan == InitScan /\ [][NextScan]_vars

\* =================================================================== claims
\* Whether a server hint names guild g, by identifier or by name.
HintMatches(hint, g) ==
  hint = GuildId(g) \/ toLowerCase(hint) = toLowerCase(GuildName(g))

\* Whether the invocation went through the if (!channel) block.
ResolutionFailed == pc = "done" /\ channel = NULL /\ calls # <<>>

\* C1: for every reference equal to the identifier of a known text channel,
\* findChannel returns that channel when the server hint is absent or matches
\* the channel's owning server, for every number of joined servers.
C1_IdentifierResolves ==
  \A c \in Channels : \A hint \in ServerRefs :
    ( /\ ChannelTable[c].text
      /\ InSeq(ChannelTable[c].owner, guildCache)
      /\ (hint = Absent \/ HintMatches(hint, ChannelTable[c].owner)) )
    => findChannel(ChannelId(c), hint, guildCache) = c

\* C2: findGuild called with an absent server reference returns the joined
\* server when exactly one server is joined, and null when two or more are.
C2_AbsentServer ==
  [][ (pc = "findChannel" /\ pc' # "findChannel" /\ req.server = Absent)
      => /\ (Len(guildCache) = 1 => guild' = guildCache[1])
         /\ (Len(guildCache) >= 2 => guild' = NULL) ]_vars

C2_Witness ==
  /\ pc = "notFound"
  /\ req.server = Absent
  /\ Len(guildCache) >= 2
  /\ calls = <<Call("findGuild", 0)>>
  /\ guild = NULL

\* C3: for a fixed guild cache and a fixed server hint, two channel name
\* references that differ only in letter case or only in a leading "#" make
\* findChannel return the same result.
C3_CaseAndMarker ==
  LET Variants == NameRefs \cup {<<"#">> \o n : n \in NameRefs}
      bare(r) == IF Head(r) = "#" THEN Tail(r) ELSE r
  IN (pc # "idle" /\ req.channel # <<>> /\ req.channel[1] \in Variants) =>
       \A r2 \in Variants :
         toLowerCase(bare(req.channel[1])) = toLowerCase(bare(r2))
         => findChannel(req.channel[1], req.server, guildCache)
              = findChannel(r2, req.server, guildCache)

C3_Witness ==
  /\ pc = "resolved"
  /\ req.channel = << <<"#", "G">> >>
  /\ channel = 1
  /\ findChannel(<<"g">>, req.server, guildCache) = 1

\* C4: findLastUserMessage returns the message with the latest creation time
\* among those whose author is not flagged automated and is not the bot,
\* wherever it sits in the window, and returns none exactly when the window
\* holds no such message.
C4_LastUserMessage ==
  pc = "scanned" =>
    LET Q == {i \in 1..Len(fetched) :
                ~fetched[i].author.bot /\ fetched[i].author.id # BotId}
    IN /\ (Q = {}) <=> (lastUserMessage = <<>>)
       /\ Q # {} =>
            \E i \in Q :
              /\ lastUserMessage = <<fetched[i]>>
              /\ \A j \in Q :
                   fetched[j].createdTimestamp <= fetched[i].createdTimestamp

C4_Witness ==
  /\ pc = "scanned"
  /\ Len(fetched) = 3
  /\ lastUserMessage = <<fetched[2]>>
  /\ fetched[1].createdTimestamp > fetched[2].createdTimestamp
  /\ fetched[3].author.bot

\* C5: an invocation whose limit (read-messages, 1..100) or contextSize
\* (reply-to-conversation, 1..50) is out of bounds fails validation with an
\* error naming the field path, and makes no resolver or platform call.
C5_OutOfBounds ==
  ( /\ pc # "idle"
    /\ req.num # <<>>
    /\ \/ req.name = "read-messages" /\ (req.num[1] < 1 \/ req.num[1] > 100)
       \/ req.name = "reply-to-conversation" /\ (req.num[1] < 1 \/ req.num[1] > 50) )
  => /\ pc = "done"
     /\ result.kind = "error"
     /\ result.tag = "invalid-arguments"
     /\ InSeq(IF req.name = "read-messages" THEN "limit" ELSE "contextSize",
              result.paths)
     /\ calls = <<>>

C5_Witness ==
  /\ pc = "done"
  /\ req.name = "read-messages"
  /\ req.num = <<101>>
  /\ req.channel # <<>>
  /\ result.paths = <<"limit">>

\* C6 as stated: whenever resolution fails the invocation ends with a text
\* result that enumerates the available servers or the available channels.
C6_AlwaysEnumerates ==
  ResolutionFailed =>
    result.kind = "text" /\ result.listed \in {"servers", "channels"}

\* C6 as amended: whenever resolution fails the invocation ends with a text
\* result; it enumerates the joined servers when no server was given and more
\* than one is joined or when the given server is not found, the text channels
\* of the given server when that server is found, and nothing when no server
\* was given and at most one server is joined.
C6_Diagnostic ==
  [][ (pc = "notFound" /\ pc' # "notFound")
      => /\ pc' = "done"
         /\ result'.kind = "text"
         /\ result'.prefix = errorPrefix(req.name)
         /\ (req.server = Absent /\ Len(guildCache) > 1)
              => (result'.listed = "servers" /\ result'.items = guildCache)
         /\ (req.server = Absent /\ Len(guildCache) <= 1)
              => (result'.listed = "none" /\ result'.tag = "channel-not-found")
         /\ req.server # Absent
              => \/ /\ result'.tag = "server-not-found"
                    /\ result'.listed = "servers"
                    /\ result'.items = guildCache
                    /\ \A i \in 1..Len(guildCache) :
                         ~HintMatches(req.server, guildCache[i])
                 \/ /\ result'.tag = "channel-not-found-in-server"
                    /\ result'.listed = "channels"
                    /\ \E i \in 1..Len(guildCache) :
                         /\ HintMatches(req.server, guildCache[i])
                         /\ \A c \in Channels :
                              InSeq(c, result'.items)
                              <=> (ChannelTable[c].text
                                   /\ ChannelTable[c].owner = guildCache[i]) ]_vars

C6_Witness ==
  /\ ResolutionFailed
  /\ req.name = "read-messages"
  /\ req.server = Absent
  /\ result.tag = "multiple-servers"
  /\ result.items = guildCache
  /\ Len(guildCache) = 2

\* C7 as stated: an invocation of one of the three tools ends in a thrown
\* error only when a platform call rejected, and the error thrown is then the
\* error the call rejected with.
C7_OnlyPlatformErrors ==
  (pc = "done" /\ req.name \in ToolNames /\ result.kind = "error")
  => (raised # "none" /\ result.msg = raised)

\* C7 as amended: an invocation ends in a thrown error only when a platform
\* call (send, fetch or reply) rejected, and then with that very error, or
\* when the arguments failed validation, or when the tool name is unknown; a
\* failed resolution and a window without a qualifying message never throw.
C7_HardFailures ==
  pc = "done" =>
    /\ result.kind \in {"text", "error"}
    /\ result.kind = "error" =>
         \/ /\ raised \in PlatformErrors
            /\ result.tag = "platform"
            /\ result.msg = raised
            /\ calls[Len(calls)].op \in {"send", "messages.fetch", "reply"}
         \/ /\ raised = "none"
            /\ result.tag = "invalid-arguments"
            /\ req.name \in ToolNames
            /\ result.paths # <<>>
            /\ calls = <<>>
         \/ /\ raised = "none"
            /\ result.tag = "unknown-tool"
            /\ req.name \notin ToolNames
            /\ calls = <<>>
    /\ (raised = "none" /\ calls # <<>>) => result.kind = "text"

C7_Witness ==
  /\ pc = "done"
  /\ req.name = "reply-to-conversation"
  /\ result.kind = "error"
  /\ raised = "ECONNRESET"
  /\ result.msg = "ECONNRESET"
  /\ calls[Len(calls)].op = "reply"

\* C8: in reply-to-conversation, once the channel is resolved: when the
\* scanner finds no qualifying message no reply and no send is issued and the
\* result names the channel and the window size; otherwise exactly one reply
\* is issued, to the message the scanner located, and no plain send.
C8_ReplyTarget ==
  (pc = "done" /\ req.name = "reply-to-conversation" /\ channel # NULL) =>
    LET replies == SelectSeq(calls, LAMBDA k : k.op = "reply")
        sends == SelectSeq(calls, LAMBDA k : k.op = "send")
        fetchRejected == raised # "none" /\ calls[Len(calls)].op = "messages.fetch"
    IN /\ sends = <<>>
       /\ fetchRejected => replies = <<>>
       /\ (~fetchRejected /\ lastUserMessage = <<>>) =>
            /\ replies = <<>>
            /\ result.kind = "text"
            /\ result.tag = "no-user-messages"
            /\ result.chan = channel
            /\ result.n = size(req)
       /\ lastUserMessage # <<>> =>
            /\ Len(replies) = 1
            /\ replies[1].arg = lastUserMessage[1].id
            /\ calls[Len(calls)] = replies[1]

C8_Witness ==
  /\ pc = "done"
  /\ req.name = "reply-to-conversation"
  /\ result.tag = "replied"
  /\ lastUserMessage # <<>>
  /\ lastUserMessage[1].id = 3
  /\ calls[Len(calls)] = Call("reply", 3)

\* C9: every channel findChannel returns, by identifier or by name, is a text
\* channel owned by the guild findGuild resolved for the same call.
C9_TextChannelOfGuild ==
  channel # NULL =>
    /\ ChannelTable[channel].text
    /\ guild # NULL
    /\ ChannelTable[channel].owner = guild

C9_Witness ==
  /\ pc = "resolved"
  /\ req.channel = <<ChannelId(channel)>>
  /\ guild = ChannelTable[channel].owner

\* C10: when a server reference is given and resolution fails, the diagnostic
\* says the server was not found exactly when findChannel's server lookup
\* failed, and that the channel was not found in the server exactly when that
\* lookup succeeded, also when the guild cache changes between the lookups.
C10_DiagnosticNamesCause ==
  (ResolutionFailed /\ req.server # Absent) =>
    /\ (result.tag = "server-not-found") <=> (guild = NULL)
    /\ (result.tag = "channel-not-found-in-server") <=> (guild # NULL)

====
